---- MODULE Spec2Model ----
(***************************************************************************)
(* A model of the JDWP transport of pyjdwp (src/pyjdwp.py): the handshake  *)
(* of PyJDWP.connect, the constructor that drives it, and the framing and  *)
(* read loops of PyJDWP.send_command, over a byte stream whose peer and    *)
(* whose chunking are nondeterministic.                                    *)
(*                                                                         *)
(* A byte is a number in 0..255, a byte string a sequence of bytes.  The   *)
(* socket is a pair of streams: the bytes the kernel accepted from send()  *)
(* and inbuf, the bytes the peer has sent and recv() has not yet returned. *)
(* recv(n) on a blocking stream socket returns any non-empty prefix of at  *)
(* most n available bytes, b"" once the peer has closed and nothing is     *)
(* left, and blocks otherwise.  send(b) returns the number of bytes the    *)
(* kernel accepted, which may be fewer than len(b).                        *)
(*                                                                         *)
(* Spec is the transport: construction, send_command, do_sizes and exit.   *)
(* DecodeSpec is the decoding of a reply body in a constructed session:    *)
(* the record loops of classpaths, get_classes, get_threads and            *)
(* get_threadgroups, with the decoders of the parser module as the         *)
(* specification describes them.                                           *)
(***************************************************************************)
EXTENDS Integers, Sequences, FiniteSets, TLC

\* ------------------------------------------------------------- bounds
\* Longest reply body the peer chooses freely.
MaxBody == 2
\* A recv returns all it may (what is available, up to its bufsize) or a
\* short chunk of at most this many bytes.
MaxChunk == 1
\* Most bytes of a request packet that socket.send leaves unaccepted.
MaxUnsent == 1
\* Number of calls (send_command, do_sizes, exit) the caller makes after
\* construction.
MaxCalls == 2
\* Number of empty reads of the body loop that are followed (the loop itself
\* has no bound).
MaxSpin == 2
\* Most records (threads, classes, paths) in a reply that is decoded.
MaxRecords == 2
\* Longest internal class name of a signature.
MaxName == 2

\* ---------------------------------------------------- program constants
\* hlength = length = 11
hlength == 11
\* self.socket.recv(14)
HandshakeRecvSize == 14
\* hformat = ">iiBBB": the length field is the first four bytes of a header.
LengthFieldSize == 4

\* b"JDWP-Handshake"
magic_token == <<74, 68, 87, 80, 45, 72, 97, 110, 100, 115, 104, 97, 107, 101>>

cmd_map ==
    [n \in {"Version", "ClassesBySignature", "AllClasses", "AllThreads",
            "TopLevelThreadGroups", "Dispose", "IDSizes", "Suspend", "Resume",
            "Exit", "CreateString", "Capabilities", "ClassPaths",
            "DisposeObjects", "HoldEvents", "ReleaseEvents"} |->
       CASE n = "Version"              -> <<1, 1>>
         [] n = "ClassesBySignature"   -> <<1, 2>>
         [] n = "AllClasses"           -> <<1, 3>>
         [] n = "AllThreads"           -> <<1, 4>>
         [] n = "TopLevelThreadGroups" -> <<1, 5>>
         [] n = "Dispose"              -> <<1, 6>>
         [] n = "IDSizes"              -> <<1, 7>>
         [] n = "Suspend"              -> <<1, 8>>
         [] n = "Resume"               -> <<1, 9>>
         [] n = "Exit"                 -> <<1, 10>>
         [] n = "CreateString"         -> <<1, 11>>
         [] n = "Capabilities"         -> <<1, 12>>
         [] n = "ClassPaths"           -> <<1, 13>>
         [] n = "DisposeObjects"       -> <<1, 14>>
         [] n = "HoldEvents"           -> <<1, 15>>
         [] n = "ReleaseEvents"        -> <<1, 16>>]

\* ------------------------------------------------------------ helpers
Prefix(s, k) == SubSeq(s, 1, k)

Suffix(s, k) == SubSeq(s, k + 1, Len(s))

Min(a, b) == IF a < b THEN a ELSE b

\* struct.pack(">i", x): four bytes, big-endian, two's complement.
PackInt(x) ==
    << (x \div 16777216) % 256, (x \div 65536) % 256, (x \div 256) % 256, x % 256 >>

\* struct.unpack(">i", b): the signed value of four big-endian bytes.
UnpackInt(b) ==
    (IF b[1] >= 128 THEN b[1] - 256 ELSE b[1]) * 16777216
      + b[2] * 65536 + b[3] * 256 + b[4]

\* struct.pack(">iiBBB", length, id, flags, cmd_set, cmd_id)
PackHeader(length, id, flags, cmd_set, cmd_id) ==
    PackInt(length) \o PackInt(id) \o <<flags, cmd_set, cmd_id>>

\* struct.unpack(">iiBBB", b) of an 11-byte string.
UnpackHeader(b) ==
    [length  |-> UnpackInt(SubSeq(b, 1, 4)),
     id      |-> UnpackInt(SubSeq(b, 5, 8)),
     flags   |-> b[9],
     cmd_set |-> b[10],
     cmd     |-> b[11]]

\* --------------------------------------------------------------- state
VARIABLES
    pc,             \* where the client's thread of control stands
    socket,         \* self.socket: "unset", "None", "open" or "closed"
    last_error,     \* self.last_error: "None" or the text of the exception
    connectResult,  \* what connect() returned: "none" yet, "True" or "False"
    hsReceived,     \* connect()'s recv(14) has returned
    hsData,         \* data = self.socket.recv(14) of connect()
    command_count,  \* self.command_count
    sizes,          \* the parser's size registry: <<>> until set_sizes
    setSizesCalls,  \* how many times parser.set_sizes was called
    ctx,            \* who called send_command: "init" (get_sizes) or "api"
    calls,          \* commands issued by the caller after construction
    cmdName,        \* send_command's cmd argument
    cmdData,        \* send_command's data argument: None or a byte string
    packet,         \* the request packet send_command built
    accepted,       \* what socket.send returned, until the next socket call
    length,         \* the local `length`: 11, the request's, the response's
    full_length,    \* full_length = length - hlength
    data,           \* the body accumulated by the read loop
    emptyReads,     \* reads of the body loop that returned b""
    outcome,        \* how the last send_command ended
    result,         \* what the last send_command returned
    inbuf,          \* bytes the peer sent that recv has not returned yet
    peerClosed,     \* the peer closed its end of the connection
    peerOwes,       \* the peer has not yet answered what the client sent
    afterHdr,       \* the stream that followed the response header
    lastChunk,      \* what the last recv of send_command returned
    outLog,         \* the id of each request packet written, in order
    nRead,          \* responses read in full (header and body)
    exitCalls,      \* calls of exit() so far
    exitOutcome,    \* how the last exit() ended: "none" yet, "returned" or an error
    peerHonest,     \* the peer has sent the token and exactly one reply per request
    pending,        \* bodies of the replies sent that no returned call stands for yet
    matched,        \* the last call that returned gave the body of its turn
    fn,             \* the decoding method that runs: "none" while none does
    response,       \* the body send_command returned to it
    truth,          \* what the peer encoded in that body
    count,          \* the count it decoded
    offset,         \* its running offset (`offset`, `off`)
    items,          \* the list it builds (threads, groups, classes, classpaths)
    consumed,       \* the bytes_consumed of each record it decoded
    dpc,            \* where it stands: "start", "loop", "done" or "error"
    ret             \* what it returned

\* The state of the transport, and the state of a decoding method.
transportVars ==
    << pc, socket, last_error, connectResult, hsReceived, hsData, command_count, sizes,
       setSizesCalls, ctx, calls, cmdName, cmdData, packet, accepted,
       length, full_length, data, emptyReads, outcome, result, inbuf,
       peerClosed, peerOwes, afterHdr, lastChunk, outLog, nRead,
       exitCalls, exitOutcome, peerHonest, pending, matched >>

decVars == << fn, response, truth, count, offset, items, consumed, dpc, ret >>

vars == << transportVars, decVars >>

connVars == << socket, last_error, connectResult, hsReceived, hsData >>

callVars == << cmdName, cmdData, packet, accepted, length, full_length,
               data, emptyReads, afterHdr, lastChunk >>

peerVars == << inbuf, peerClosed, peerOwes >>

exitVars == << exitCalls, exitOutcome >>

\* What the model keeps of the peer's replies to compare the returns with.
replyVars == << peerHonest, pending >>

\* ------------------------------------------------------ the peer's choices
\* The body bytes the peer sends: byte i of a body is 160 + i, so that a
\* lost, repeated or reordered byte shows.
BodyOfLen(n) == [i \in 1..n |-> 160 + i]

\* The body of a well-formed IDSizes reply: five ints (4, 4, 8, 8, 8).
IDSizesBody ==
    PackInt(4) \o PackInt(4) \o PackInt(8) \o PackInt(8) \o PackInt(8)

PeerBodies(name) ==
    { BodyOfLen(n) : n \in 0..MaxBody } \cup (IF name = "IDSizes" THEN {IDSizesBody} ELSE {})

\* What the peer may send unasked right after a reply: the first byte of a
\* further packet (an event).
Extra == <<238>>

\* A reply packet: a header declaring 11 + len(body), the reply's id, the
\* reply flag and an error code of 0, then the body.
ReplyPacket(id, body) == PackHeader(hlength + Len(body), id, 128, 0, 0) \o body

\* Where the peer may close instead of sending a whole reply: before it, or
\* anywhere from the end of the header on.
CutPoints(full) == { c \in 0..(Len(full) - 1) : c = 0 \/ c >= hlength }

\* What the peer may send for the request with id `id`: the reply, and for a
\* body of its free choice also the reply under another id, the reply
\* followed by more, or a part of the reply before it closes.
\* `exact` marks the sends that are the reply packet and nothing else.
PeerSends(name, id) ==
    UNION { { [bytes |-> ReplyPacket(id, body), closes |-> FALSE,
               exact |-> TRUE, body |-> body] }
            \cup (IF Len(body) <= MaxBody
                  THEN { [bytes |-> ReplyPacket(id + 1, body), closes |-> FALSE,
                          exact |-> FALSE, body |-> body],
                         [bytes |-> ReplyPacket(id, body) \o Extra, closes |-> FALSE,
                          exact |-> FALSE, body |-> body] }
                       \cup { [bytes |-> Prefix(ReplyPacket(id, body), c),
                               closes |-> TRUE, exact |-> FALSE, body |-> body] :
                               c \in CutPoints(ReplyPacket(id, body)) }
                  ELSE {})
          : body \in PeerBodies(name) }

\* What the peer may answer to the magic token: the token, the token with a
\* wrong byte, one byte short, one byte long, or nothing.
HsReplies ==
    { magic_token,
      [magic_token EXCEPT ![14] = 0],
      Prefix(magic_token, 13),
      magic_token \o <<0>>,
      <<>> }

\* What recv(n) may return: a non-empty prefix of at most n available bytes
\* (all of them, or a short chunk), or b"" at end of stream; nothing (the
\* call blocks) otherwise.
RecvResults(n) ==
    IF inbuf # <<>>
    THEN { Prefix(inbuf, k) :
             k \in { j \in 1..Min(n, Len(inbuf)) : j <= MaxChunk \/ j = Min(n, Len(inbuf)) } }
    ELSE IF peerClosed THEN { <<>> }
    ELSE {}

\* What recv(hlength) may return for the response header: all it may (what
\* is available, up to 11 bytes), or the length field alone, which the peer
\* wrote ahead of the rest; b"" at end of stream.
HeaderRecvResults ==
    IF inbuf # <<>>
    THEN { Prefix(inbuf, k) :
             k \in { j \in 1..Min(hlength, Len(inbuf)) :
                       j = LengthFieldSize \/ j = Min(hlength, Len(inbuf)) } }
    ELSE IF peerClosed THEN { <<>> }
    ELSE {}

\* ------------------------------------------------- the code's decisions
\* data=None of send_command, and a byte string given as data.
NoneArg == [none |-> TRUE, bytes |-> <<>>]

BytesArg(b) == [none |-> FALSE, bytes |-> b]

\* `if data:` is false for None and for b"".
Truthy(arg) == ~arg.none /\ arg.bytes # <<>>

\* A handshake check that compares the length only.
HandshakeOk_LengthOnly(d) == Len(d) = Len(magic_token)

\* data == magic_token
HandshakeOk(d) == d = magic_token

\* A constructor that goes on whatever connect() returned.
InitProceeds_Always(connected) == TRUE

\* if self.connect(): ... else: ... self.exit(); sys.exit(-1)
InitProceeds(connected) == connected

\* A lookup that falls back to (0, 0), as cmd_map.get(cmd, (0, 0)) would.
Lookup_Default(name) ==
    [found |-> TRUE,
     entry |-> IF name \in DOMAIN cmd_map THEN cmd_map[name] ELSE <<0, 0>>]

\* cmd_set, cmd_id = cmd_map[cmd]: a KeyError for a name not in the table.
Lookup(name) ==
    IF name \in DOMAIN cmd_map
    THEN [found |-> TRUE, entry |-> cmd_map[name]]
    ELSE [found |-> FALSE, entry |-> <<0, 0>>]

\* A length that forgets the payload.
RequestLength_HeaderOnly(arg) == hlength

\* length = 11; if data: length += len(data)
RequestLength(arg) == IF Truthy(arg) THEN hlength + Len(arg.bytes) ELSE hlength

\* packet = struct.pack(hformat, length, packet_id, 0, cmd_set, cmd_id)
\* if data: packet = packet + data
BuildPacket(name, arg, packet_id) ==
    LET entry == Lookup(name).entry
        head  == PackHeader(RequestLength(arg), packet_id, 0, entry[1], entry[2])
    IN  IF Truthy(arg) THEN head \o arg.bytes ELSE head

\* What socket.send(packet) may return: the kernel accepts at least one byte
\* of a non-empty packet and at most all of it.
SendResults(p) == { k \in 1..Len(p) : Len(p) - k <= MaxUnsent }

\* struct.unpack(hformat, b) raises struct.error unless len(b) == 11.
HeaderComplete(chunk) == Len(chunk) = hlength

\* full_length = length - hlength.  Python's integers are unbounded and the
\* model checker's have 32 bits: below their range the difference is kept at
\* the lowest value, which like every negative full_length skips the loop.
FullLength(len) ==
    IF len >= hlength - 2147483647 THEN len - hlength ELSE -2147483647

\* while len(data) < full_length
LoopContinues(d, fl) == Len(d) < fl

\* A loop body that keeps the last chunk only (data = ... for data += ...).
Accumulate_Overwrite(d, chunk) == chunk

\* data += self.socket.recv(length - hlength)
Accumulate(d, chunk) == d \o chunk

\* A get_sizes() that stores what it decoded, whoever called it.
WritesRegistry_Always(who) == TRUE

\* parser.set_sizes(self.get_sizes()) is called in __init__ only: get_sizes()
\* itself, and do_sizes() which prints its result, store nothing.
WritesRegistry(who) == who = "init"

\* An exit() that closes whatever self.socket is.
SocketTruthy_Always(sock) == TRUE

\* `if self.socket:`: None is false, a socket object (closed or not) is true.
SocketTruthy(sock) == sock \in {"open", "closed"}

\* An exit() that leaves the socket as it is.
ExitResult_NoClose(sock) == [socket |-> sock, outcome |-> "returned"]

\* exit(): `if self.socket: self.socket.close()`.  close() of a socket
\* already closed does nothing; None has no close(), and an object on which
\* connect() never ran has no attribute `socket`.
ExitResult(sock) ==
    IF sock = "unset"
    THEN [socket |-> sock, outcome |-> "AttributeError"]
    ELSE IF SocketTruthy(sock)
         THEN IF sock = "None"
              THEN [socket |-> sock, outcome |-> "AttributeError"]
              ELSE [socket |-> "closed", outcome |-> "returned"]
         ELSE [socket |-> sock, outcome |-> "returned"]

\* parser.unpack(body, "iiiii"): five 4-byte ints, an error on a shorter body.
SizesDecodable(body) == Len(body) >= 20

DecodeSizes(body) == [i \in 1..5 |-> UnpackInt(SubSeq(body, 4 * i - 3, 4 * i))]

\* -------------------------------------------------------------- Init
\* No decoding method runs.
DecodeIdle ==
    /\ fn = "none"
    /\ response = <<>>
    /\ truth = <<>>
    /\ count = 0
    /\ offset = 0
    /\ items = <<>>
    /\ consumed = <<>>
    /\ dpc = "done"
    /\ ret = <<>>

\* PyJDWP.__init__ up to its call of self.connect().
Init ==
    /\ DecodeIdle
    /\ pc = "connect"
    /\ socket = "unset"
    /\ last_error = "None"
    /\ connectResult = "none"
    /\ hsReceived = FALSE
    /\ hsData = <<>>
    /\ command_count = 0
    /\ sizes = <<>>
    /\ setSizesCalls = 0
    /\ ctx = "init"
    /\ calls = 0
    /\ cmdName = ""
    /\ cmdData = NoneArg
    /\ packet = <<>>
    /\ accepted = 0
    /\ length = 0
    /\ full_length = 0
    /\ data = <<>>
    /\ emptyReads = 0
    /\ outcome = "none"
    /\ result = <<>>
    /\ inbuf = <<>>
    /\ peerClosed = FALSE
    /\ peerOwes = FALSE
    /\ afterHdr = <<>>
    /\ lastChunk = <<>>
    /\ outLog = <<>>
    /\ nRead = 0
    /\ exitCalls = 0
    /\ exitOutcome = "none"
    /\ peerHonest = TRUE
    /\ pending = <<>>
    /\ matched = TRUE

\* --------------------------------------------- pieces of send_command
\* A send_command that answers a failed header read by sending again.
Raise_Retry(kind) ==
    /\ outcome' = kind
    /\ pc' = IF kind = "struct.error" THEN "send"
             ELSE IF ctx' = "init" THEN "crashed" ELSE "ready"

\* An exception leaves send_command: inside the constructor nothing catches
\* it and the process ends; after construction the caller gets it.
Raise(kind) ==
    /\ outcome' = kind
    /\ pc' = IF ctx' = "init" THEN "crashed" ELSE "ready"

\* return data; get_sizes() unpacks what it got (a parser error on a body it
\* cannot decode), and in the constructor parser.set_sizes() stores it.
Return(d) ==
    /\ outcome' = "returned"
    /\ result' = d
    /\ nRead' = nRead + 1
    /\ matched' = (peerHonest => (pending # <<>> /\ d = Head(pending)))
    /\ pending' = IF pending # <<>> THEN Tail(pending) ELSE pending
    /\ IF ctx \in {"init", "get_sizes"}
       THEN IF SizesDecodable(d)
            THEN /\ IF WritesRegistry(ctx)
                    THEN /\ sizes' = DecodeSizes(d)
                         /\ setSizesCalls' = setSizesCalls + 1
                    ELSE UNCHANGED << sizes, setSizesCalls >>
                 /\ pc' = "ready"
            ELSE /\ pc' = IF ctx = "init" THEN "crashed" ELSE "ready"
                 /\ UNCHANGED << sizes, setSizesCalls >>
       ELSE /\ pc' = "ready"
            /\ UNCHANGED << sizes, setSizesCalls >>

\* send_command from its first line to its call of self.socket.send.
StartCall(who, name, arg) ==
    /\ ctx' = who
    /\ cmdName' = name
    /\ cmdData' = arg
    /\ accepted' = 0
    /\ length' = RequestLength(arg)
    /\ full_length' = 0
    /\ data' = <<>>
    /\ emptyReads' = 0
    /\ afterHdr' = <<>>
    /\ lastChunk' = <<>>
    /\ result' = <<>>
    /\ matched' = TRUE
    /\ IF Lookup(name).found
       THEN /\ packet' = BuildPacket(name, arg, command_count)
            /\ outcome' = "running"
            /\ pc' = "send"
       ELSE /\ packet' = <<>>
            /\ Raise("KeyError")

\* ---------------------------------------------------------- connect()
\* self.socket.connect(...) succeeds: connect() goes on to send the token.
ConnectOk ==
    /\ pc = "connect"
    /\ socket' = "open"
    /\ pc' = "hs_send"
    /\ UNCHANGED << last_error, connectResult, hsReceived, hsData, command_count,
                    sizes, setSizesCalls, ctx, calls, callVars, outcome, result,
                    peerVars, outLog, nRead, exitVars, replyVars, matched >>
    /\ UNCHANGED decVars

\* self.socket.connect(...) raises: connect() returns False, and __init__
\* prints, calls self.exit() (self.socket is None) and sys.exit(-1).
ConnectRefused ==
    /\ pc = "connect"
    /\ last_error' = "str(e)"
    /\ connectResult' = "False"
    /\ IF InitProceeds(FALSE)
       THEN /\ socket' = "None"
            /\ pc' = "crashed"
            /\ UNCHANGED exitVars
       ELSE LET r == ExitResult("None")
            IN  /\ socket' = r.socket
                /\ exitCalls' = exitCalls + 1
                /\ exitOutcome' = r.outcome
                /\ pc' = IF r.outcome = "returned" THEN "exited" ELSE "crashed"
    /\ UNCHANGED << hsReceived, hsData, command_count, sizes, setSizesCalls, ctx,
                    calls, callVars, outcome, result, peerVars, outLog, nRead,
                    replyVars, matched >>
    /\ UNCHANGED decVars

\* self.socket.send(magic_token) returns.
HandshakeSend ==
    /\ pc = "hs_send"
    /\ pc' = "hs_recv"
    /\ peerOwes' = TRUE
    /\ UNCHANGED << connVars, command_count, sizes, setSizesCalls, ctx, calls,
                    callVars, outcome, result, inbuf, peerClosed, outLog, nRead,
                    exitVars, replyVars, matched >>
    /\ UNCHANGED decVars

\* data = self.socket.recv(14) returns; connect() compares and returns, and
\* __init__ either goes on to get_sizes() (which runs send_command up to its
\* send) or prints, closes the socket in self.exit() and leaves by sys.exit.
HandshakeRecv ==
    /\ pc = "hs_recv"
    /\ \E chunk \in RecvResults(HandshakeRecvSize) :
         LET ok == HandshakeOk(chunk)
         IN  /\ hsData' = chunk
             /\ hsReceived' = TRUE
             /\ inbuf' = Suffix(inbuf, Len(chunk))
             /\ connectResult' = IF ok THEN "True" ELSE "False"
             /\ IF InitProceeds(ok)
                THEN /\ StartCall("init", "IDSizes", NoneArg)
                     /\ UNCHANGED << socket, exitVars >>
                ELSE LET r == ExitResult(socket)
                     IN  /\ socket' = r.socket
                         /\ exitCalls' = exitCalls + 1
                         /\ exitOutcome' = r.outcome
                         /\ pc' = IF r.outcome = "returned" THEN "exited" ELSE "crashed"
                         /\ UNCHANGED << ctx, callVars, outcome, result, matched >>
    /\ UNCHANGED << last_error, command_count, sizes, setSizesCalls, calls,
                    peerClosed, peerOwes, outLog, nRead, replyVars >>
    /\ UNCHANGED decVars

\* ------------------------------------------------------- send_command
\* Names and payloads the caller passes to send_command.
CallNames == { "CreateString", "NotACommand" }

CallArgs == { NoneArg, BytesArg(<<>>), BytesArg(<<7>>) }

\* The id field of a request packet.
PacketId(p) == UnpackInt(SubSeq(p, 5, 8))

\* A caller holding the constructed object calls send_command(name, arg).
SendCommand ==
    /\ pc = "ready"
    /\ calls < MaxCalls
    /\ calls' = calls + 1
    /\ \E name \in CallNames, arg \in CallArgs : StartCall("api", name, arg)
    /\ UNCHANGED << connVars, command_count, sizes, setSizesCalls, peerVars,
                    outLog, nRead, exitVars, replyVars >>
    /\ UNCHANGED decVars

\* The caller runs do_sizes(): print(str(self.get_sizes())), which sends
\* IDSizes again.
DoSizes ==
    /\ pc = "ready"
    /\ calls < MaxCalls
    /\ calls' = calls + 1
    /\ StartCall("get_sizes", "IDSizes", NoneArg)
    /\ UNCHANGED << connVars, command_count, sizes, setSizesCalls, peerVars,
                    outLog, nRead, exitVars, replyVars >>
    /\ UNCHANGED decVars

\* self.socket.send(packet) returns, having accepted all of the packet or
\* only its first k bytes.
Send ==
    /\ pc = "send"
    /\ \/ accepted' = Len(packet)
       \/ \E k \in SendResults(packet) \ {Len(packet)} : accepted' = k
    /\ outLog' = Append(outLog, PacketId(packet))
    /\ pc' = "hdr"
    /\ peerOwes' = TRUE
    /\ UNCHANGED << connVars, command_count, sizes, setSizesCalls, ctx, calls,
                    cmdName, cmdData, packet, length, full_length, data,
                    emptyReads, afterHdr, lastChunk, outcome, result, inbuf,
                    peerClosed, nRead, exitVars, replyVars, matched >>
    /\ UNCHANGED decVars

\* self.socket.recv(hlength) returns and struct.unpack takes what it gave:
\* anything but 11 bytes is a struct.error; otherwise the counter goes up and
\* the body loop starts (or is skipped, and send_command returns).
RecvHeader ==
    /\ pc = "hdr"
    /\ UNCHANGED ctx
    /\ \E chunk \in HeaderRecvResults :
         /\ lastChunk' = chunk
         /\ inbuf' = Suffix(inbuf, Len(chunk))
         /\ accepted' = 0
         /\ IF HeaderComplete(chunk)
            THEN LET h  == UnpackHeader(chunk)
                     fl == FullLength(h.length)
                 IN  /\ length' = h.length
                     /\ command_count' = command_count + 1
                     /\ full_length' = fl
                     /\ afterHdr' = inbuf'
                     /\ IF LoopContinues(<<>>, fl)
                        THEN /\ pc' = "body"
                             /\ UNCHANGED << outcome, result, nRead, sizes,
                                             setSizesCalls, pending, matched >>
                        ELSE Return(<<>>)
            ELSE /\ Raise("struct.error")
                 /\ UNCHANGED << length, command_count, full_length,
                                 afterHdr, result, nRead, sizes, setSizesCalls,
                                 pending, matched >>
    /\ UNCHANGED << connVars, calls, cmdName, cmdData, packet, data,
                    emptyReads, peerClosed, peerOwes, outLog, exitVars,
                    peerHonest >>
    /\ UNCHANGED decVars

\* One turn of `while len(data) < full_length`: recv(length - hlength)
\* returns, its bytes are appended, and the condition is tested again.
RecvBody ==
    /\ pc = "body"
    /\ \E chunk \in RecvResults(length - hlength) :
         /\ chunk = <<>> => emptyReads < MaxSpin
         /\ lastChunk' = chunk
         /\ inbuf' = Suffix(inbuf, Len(chunk))
         /\ emptyReads' = IF chunk = <<>> THEN emptyReads + 1 ELSE emptyReads
         /\ data' = Accumulate(data, chunk)
         /\ IF LoopContinues(data', full_length)
            THEN /\ pc' = "body"
                 /\ UNCHANGED << outcome, result, nRead, sizes, setSizesCalls,
                                 pending, matched >>
            ELSE Return(data')
    /\ UNCHANGED << connVars, command_count, ctx, calls, cmdName, cmdData,
                    packet, accepted, length, full_length, afterHdr,
                    peerClosed, peerOwes, outLog, exitVars, peerHonest >>
    /\ UNCHANGED decVars

\* ------------------------------------------------------------ the peer
\* The peer answers the magic token with one of HsReplies, and may close.
PeerHandshake ==
    /\ pc = "hs_recv"
    /\ peerOwes
    /\ \E r \in HsReplies, c \in BOOLEAN :
         /\ r = <<>> => c
         /\ inbuf' = r
         /\ peerClosed' = c
         /\ peerHonest' = (r = magic_token)
    /\ peerOwes' = FALSE
    /\ UNCHANGED << pc, connVars, command_count, sizes, setSizesCalls, ctx,
                    calls, callVars, outcome, result, outLog, nRead, exitVars,
                    pending, matched >>
    /\ UNCHANGED decVars

\* The id of the last request written.
LastId == outLog[Len(outLog)]

\* The peer answers the last request with one of PeerSends.
PeerReply ==
    /\ pc \in {"hdr", "body"}
    /\ peerOwes
    /\ ~peerClosed
    /\ \E r \in PeerSends(cmdName, LastId) :
         /\ inbuf' = inbuf \o r.bytes
         /\ peerClosed' = r.closes
         /\ afterHdr' = IF pc = "body" THEN afterHdr \o r.bytes ELSE afterHdr
         /\ peerHonest' = (peerHonest /\ r.exact)
         /\ pending' = IF peerHonest' THEN Append(pending, r.body) ELSE <<>>
    /\ peerOwes' = FALSE
    /\ UNCHANGED << pc, connVars, command_count, sizes, setSizesCalls, ctx,
                    calls, cmdName, cmdData, packet, accepted, length,
                    full_length, data, emptyReads, lastChunk, outcome, result,
                    outLog, nRead, exitVars, matched >>
    /\ UNCHANGED decVars

\* ------------------------------------------------------------- exit()
\* The caller runs exit() (do_exit of the shell) on the constructed object,
\* and may run it again; after it no further command is issued.
Exit ==
    /\ pc \in {"ready", "after_exit"}
    /\ calls + exitCalls < MaxCalls
    /\ LET r == ExitResult(socket)
       IN  /\ socket' = r.socket
           /\ exitOutcome' = r.outcome
    /\ exitCalls' = exitCalls + 1
    /\ pc' = "after_exit"
    /\ UNCHANGED << last_error, connectResult, hsReceived, hsData, command_count,
                    sizes, setSizesCalls, ctx, calls, callVars, outcome, result,
                    peerVars, outLog, nRead, replyVars, matched >>
    /\ UNCHANGED decVars

\* ---------------------------------------------------------------- Spec
Next ==
    \/ ConnectOk
    \/ ConnectRefused
    \/ HandshakeSend
    \/ PeerHandshake
    \/ HandshakeRecv
    \/ SendCommand
    \/ DoSizes
    \/ Send
    \/ RecvHeader
    \/ RecvBody
    \/ PeerReply
    \/ Exit

Spec == Init /\ [][Next]_vars

\* The client's thread runs: a recv of the body loop that can return does.
FairSpec == Spec /\ WF_vars(RecvBody)

\* ============================================== the decoding methods
\* get_threads, get_threadgroups, get_classes and classpaths take the body
\* send_command returned and decode it with the parser module.  A str is
\* modelled as the sequence of its code points.

\* ------------------------------------------------- the parser's decoders
\* The value of a big-endian unsigned number.
RECURSIVE BigEndian(_)
BigEndian(b) ==
    IF b = <<>> THEN 0 ELSE BigEndian(Prefix(b, Len(b) - 1)) * 256 + b[Len(b)]

\* parser.unpack_int(b), and the code "i" of parser.unpack: a 4-byte int.
UnpackIntOf(b) ==
    IF Len(b) >= LengthFieldSize
    THEN [ok |-> TRUE, value |-> UnpackInt(Prefix(b, LengthFieldSize)),
          consumed |-> LengthFieldSize]
    ELSE [ok |-> FALSE, value |-> 0, consumed |-> 0]

\* The code "s": a 4-byte count, then that many bytes; an error when the
\* count exceeds what is left.
UnpackStr(b) ==
    LET n == UnpackIntOf(b)
    IN  IF n.ok /\ n.value >= 0 /\ Len(b) >= n.consumed + n.value
        THEN [ok |-> TRUE, value |-> SubSeq(b, n.consumed + 1, n.consumed + n.value),
              consumed |-> n.consumed + n.value]
        ELSE [ok |-> FALSE, value |-> <<>>, consumed |-> 0]

\* The codes "o" and "r": an identifier of the width w the registry holds.
UnpackId(b, w) ==
    IF Len(b) >= w
    THEN [ok |-> TRUE, value |-> BigEndian(Prefix(b, w)), consumed |-> w]
    ELSE [ok |-> FALSE, value |-> 0, consumed |-> 0]

\* The code "b": one byte.
UnpackByte(b) ==
    IF b # <<>>
    THEN [ok |-> TRUE, value |-> b[1], consumed |-> 1]
    ELSE [ok |-> FALSE, value |-> 0, consumed |-> 0]

\* The registry's width of object ids (third entry) and of reference type
\* ids (fourth entry).
ObjectIdSize(reg) == reg[3]

ReferenceTypeIdSize(reg) == reg[4]

\* parser.unpack(b, "brsi", add_offset=True): tag, type id, signature,
\* status, and the bytes they took.
UnpackClass(b, w) ==
    LET t  == UnpackByte(b)
        r  == UnpackId(Suffix(b, t.consumed), w)
        g  == UnpackStr(Suffix(b, t.consumed + r.consumed))
        st == UnpackIntOf(Suffix(b, t.consumed + r.consumed + g.consumed))
    IN  [ok |-> t.ok /\ r.ok /\ g.ok /\ st.ok,
         sig |-> g.value,
         consumed |-> t.consumed + r.consumed + g.consumed + st.consumed]

\* parser.unpack(response, "si", add_offset=True): base dir, count, offset.
UnpackClasspathsHead(b) ==
    LET g == UnpackStr(b)
        n == UnpackIntOf(Suffix(b, g.consumed))
    IN  [ok |-> g.ok /\ n.ok, count |-> n.value, consumed |-> g.consumed + n.consumed]

\* ------------------------------------------------ signature clean-up
\* jni_types = ("[", "L", "Z", "B", "C", "S", "I", "J", "F", "D")
jni_types == {91, 76, 90, 66, 67, 83, 73, 74, 70, 68}

\* "[" and "L", the markers of an array and of an object type.
ArrayMark == 91

ObjectMark == 76

\* ";", "$", "/" and "."
Semicolon == 59

Dollar == 36

Slash == 47

Dot == 46

\* while sig and sig[0] in jni_types: sig = sig[1:]
RECURSIVE StripTypes(_)
StripTypes(sig) ==
    IF sig # <<>> /\ Head(sig) \in jni_types THEN StripTypes(Tail(sig)) ELSE sig

\* while sig and sig[-1] in (";",): sig = sig[:-1]
RECURSIVE StripSemicolons(_)
StripSemicolons(sig) ==
    IF sig # <<>> /\ sig[Len(sig)] = Semicolon
    THEN StripSemicolons(Prefix(sig, Len(sig) - 1))
    ELSE sig

\* sig.split("$")[0]
RECURSIVE BeforeDollar(_)
BeforeDollar(sig) ==
    IF sig = <<>> \/ Head(sig) = Dollar
    THEN <<>>
    ELSE <<Head(sig)>> \o BeforeDollar(Tail(sig))

\* sig.replace("/", ".")
SlashesToDots(sig) == [i \in 1..Len(sig) |-> IF sig[i] = Slash THEN Dot ELSE sig[i]]

\* The four steps get_classes applies to a signature.
Normalize(sig) == SlashesToDots(BeforeDollar(StripSemicolons(StripTypes(sig))))

\* The order of str: by code points, a proper prefix first.
RECURSIVE LexLess(_, _)
LexLess(a, b) ==
    IF a = <<>> THEN b # <<>>
    ELSE IF b = <<>> THEN FALSE
    ELSE IF Head(a) # Head(b) THEN Head(a) < Head(b)
    ELSE LexLess(Tail(a), Tail(b))

\* sorted(list(set(classes)))
RECURSIVE SortedSet(_)
SortedSet(S) ==
    IF S = {} THEN <<>>
    ELSE LET m == CHOOSE x \in S : \A y \in S \ {x} : LexLess(x, y)
         IN  <<m>> \o SortedSet(S \ {m})

Range(s) == { s[i] : i \in 1..Len(s) }

\* ----------------------------------------------- the loops' decisions
\* while len(threads) < count (and the same test of the other loops)
MoreRecords(list, n) == Len(list) < n

\* An offset that is set to what the last record took.
NextOffset_Last(off, used) == used

\* offset += thread_data.pop()
NextOffset(off, used) == off + used

\* offset = 4: the records follow the 4-byte count.
FirstOffset == LengthFieldSize

\* ------------------------------------------------- what the peer encodes
\* Big-endian, w bytes.
RECURSIVE EncodeId(_, _)
EncodeId(v, w) == IF w = 0 THEN <<>> ELSE EncodeId(v \div 256, w - 1) \o <<v % 256>>

EncodeStr(str) == PackInt(Len(str)) \o str

RECURSIVE Flatten(_)
Flatten(ss) == IF ss = <<>> THEN <<>> ELSE Head(ss) \o Flatten(Tail(ss))

\* Sequences of at most MaxRecords elements of S.
ListsOf(S) == UNION { [1..n -> S] : n \in 0..MaxRecords }

\* The registries a session may hold: the sizes of the IDSizes reply of the
\* transport model, and 4-byte identifiers throughout.
SizeChoices == { DecodeSizes(IDSizesBody), [i \in 1..5 |-> LengthFieldSize] }

\* Thread and thread group ids: one that fits a byte and one that does not.
IdChoices == {1, 258}

\* The signature of a class record: dims array marks, "L", the name, ";".
SigOf(rec) == [i \in 1..rec.dims |-> ArrayMark] \o <<ObjectMark>> \o rec.name \o <<Semicolon>>

\* Internal class names: "a", "B", "/" and "$" in every order.
Names == UNION { [1..n -> {97, 66, Slash, Dollar}] : n \in 1..MaxName }

ClassRecord(dims, name) == [tag |-> 1, id |-> 258, dims |-> dims, name |-> name, status |-> 7]

\* The records of replies with several classes: "La;" and "[La/B;".
ListRecords == { ClassRecord(0, <<97>>), ClassRecord(1, <<97, Slash, 66>>) }

EncodeClass(rec, w) ==
    <<rec.tag>> \o EncodeId(rec.id, w) \o EncodeStr(SigOf(rec)) \o PackInt(rec.status)

\* Path strings: "" and "a".
PathChoices == { <<>>, <<97>> }

\* The counts a reply may declare: from a negative one to one record more
\* than any reply holds.
DeclaredCounts == (0 - 1)..(MaxRecords + 1)

\* An AllThreads or TopLevelThreadGroups reply: the declared count (right or
\* not), then the ids.
IdListInputs(method, reg) ==
    { [fn |-> method,
       truth |-> [records |-> ids, declared |-> c],
       response |-> PackInt(c) \o
                    Flatten([i \in 1..Len(ids) |-> EncodeId(ids[i], ObjectIdSize(reg))])] :
        ids \in ListsOf(IdChoices), c \in DeclaredCounts }

\* An AllClasses reply: one class of any signature, or several of ListRecords.
ClassInputs(reg) ==
    { [fn |-> "get_classes",
       truth |-> [records |-> recs, declared |-> c],
       response |-> PackInt(c) \o
                    Flatten([i \in 1..Len(recs) |->
                               EncodeClass(recs[i], ReferenceTypeIdSize(reg))])] :
        recs \in ListsOf(ListRecords) \cup { <<ClassRecord(d, n)>> : d \in 0..1, n \in Names },
        c \in DeclaredCounts }

\* A ClassPaths reply: base dir, classpath entries, bootclasspath entries.
ClasspathsInputs ==
    { [fn |-> "classpaths",
       truth |-> [base |-> base, cps |-> cps, bcps |-> bcps],
       response |-> EncodeStr(base)
                    \o PackInt(Len(cps))
                    \o Flatten([i \in 1..Len(cps) |-> EncodeStr(cps[i])])
                    \o PackInt(Len(bcps))
                    \o Flatten([i \in 1..Len(bcps) |-> EncodeStr(bcps[i])])] :
        base \in PathChoices, cps \in ListsOf(PathChoices), bcps \in ListsOf(PathChoices) }

DecodeInputs(reg) ==
    IdListInputs("get_threads", reg) \cup IdListInputs("get_threadgroups", reg)
      \cup ClassInputs(reg) \cup ClasspathsInputs

\* The reply declares as many records as it holds.
WellFormed == truth.declared = Len(truth.records)

\* ---------------------------------------------------- the methods' steps
\* A constructed session, its registry written, on which the caller is
\* about to run one of the decoding methods.
DecodeInit ==
    /\ pc = "decode"
    /\ socket = "open"
    /\ last_error = "None"
    /\ connectResult = "True"
    /\ hsReceived = TRUE
    /\ hsData = magic_token
    /\ command_count = 1
    /\ sizes \in SizeChoices
    /\ setSizesCalls = 1
    /\ ctx = "init"
    /\ calls = 0
    /\ cmdName = "IDSizes"
    /\ cmdData = NoneArg
    /\ packet = BuildPacket("IDSizes", NoneArg, 0)
    /\ accepted = 0
    /\ length = 0
    /\ full_length = 0
    /\ data = <<>>
    /\ emptyReads = 0
    /\ outcome = "returned"
    /\ result = <<>>
    /\ inbuf = <<>>
    /\ peerClosed = FALSE
    /\ peerOwes = FALSE
    /\ afterHdr = <<>>
    /\ lastChunk = <<>>
    /\ outLog = <<0>>
    /\ nRead = 1
    /\ exitCalls = 0
    /\ exitOutcome = "none"
    /\ peerHonest = TRUE
    /\ pending = <<>>
    /\ matched = TRUE
    /\ DecodeIdle

\* The caller runs get_threads, get_threadgroups, get_classes or classpaths,
\* and its send_command returns the body of the peer's reply.
DecodeCall ==
    /\ fn = "none"
    /\ \E in \in DecodeInputs(sizes) :
         /\ fn' = in.fn
         /\ truth' = in.truth
         /\ response' = in.response
    /\ dpc' = "start"
    /\ UNCHANGED << transportVars, count, offset, items, consumed, ret >>

\* count = parser.unpack_int(data); offset = 4; threads = [ ]
DecodeCount ==
    /\ dpc = "start"
    /\ fn \in {"get_threads", "get_threadgroups", "get_classes"}
    /\ LET c == UnpackIntOf(response)
       IN  IF c.ok
           THEN /\ count' = c.value
                /\ offset' = FirstOffset
                /\ dpc' = "loop"
           ELSE /\ dpc' = "error"
                /\ UNCHANGED << count, offset >>
    /\ UNCHANGED << transportVars, fn, response, truth, items, consumed, ret >>

\* (base_dir, count, off) = parser.unpack(response, "si", add_offset=True)
ClasspathsHead ==
    /\ dpc = "start"
    /\ fn = "classpaths"
    /\ LET h == UnpackClasspathsHead(response)
       IN  IF h.ok
           THEN /\ count' = h.count
                /\ offset' = h.consumed
                /\ dpc' = "loop"
           ELSE /\ dpc' = "error"
                /\ UNCHANGED << count, offset >>
    /\ UNCHANGED << transportVars, fn, response, truth, items, consumed, ret >>

\* One turn of the loop of get_threads or get_threadgroups.
IdListStep ==
    /\ dpc = "loop"
    /\ fn \in {"get_threads", "get_threadgroups"}
    /\ MoreRecords(items, count)
    /\ LET r == UnpackId(Suffix(response, offset), ObjectIdSize(sizes))
       IN  IF r.ok
           THEN /\ offset' = NextOffset(offset, r.consumed)
                /\ items' = Append(items, r.value)
                /\ consumed' = Append(consumed, r.consumed)
                /\ UNCHANGED dpc
           ELSE /\ dpc' = "error"
                /\ UNCHANGED << offset, items, consumed >>
    /\ UNCHANGED << transportVars, fn, response, truth, count, ret >>

\* One turn of the loop of get_classes.
ClassesStep ==
    /\ dpc = "loop"
    /\ fn = "get_classes"
    /\ MoreRecords(items, count)
    /\ LET r == UnpackClass(Suffix(response, offset), ReferenceTypeIdSize(sizes))
       IN  IF r.ok
           THEN /\ offset' = NextOffset(offset, r.consumed)
                /\ items' = Append(items, Normalize(r.sig))
                /\ consumed' = Append(consumed, r.consumed)
                /\ UNCHANGED dpc
           ELSE /\ dpc' = "error"
                /\ UNCHANGED << offset, items, consumed >>
    /\ UNCHANGED << transportVars, fn, response, truth, count, ret >>

\* One turn of the loop of classpaths.
ClasspathsStep ==
    /\ dpc = "loop"
    /\ fn = "classpaths"
    /\ MoreRecords(items, count)
    /\ LET r == UnpackStr(Suffix(response, offset))
       IN  IF r.ok
           THEN /\ offset' = NextOffset(offset, r.consumed)
                /\ items' = Append(items, r.value)
                /\ consumed' = Append(consumed, r.consumed)
                /\ UNCHANGED dpc
           ELSE /\ dpc' = "error"
                /\ UNCHANGED << offset, items, consumed >>
    /\ UNCHANGED << transportVars, fn, response, truth, count, ret >>

\* The loop is left and the method returns: `return threads`, `return
\* groups`, `return sorted(list(set(classes)))`, `return (classpaths, [ ])`.
DecodeReturn ==
    /\ dpc = "loop"
    /\ ~MoreRecords(items, count)
    /\ ret' = CASE fn = "get_classes" -> SortedSet(Range(items))
                [] fn = "classpaths"  -> << items, <<>> >>
                [] OTHER              -> items
    /\ dpc' = "done"
    /\ UNCHANGED << transportVars, fn, response, truth, count, offset, items, consumed >>

DecodeNext ==
    \/ DecodeCall
    \/ DecodeCount
    \/ ClasspathsHead
    \/ IdListStep
    \/ ClassesStep
    \/ ClasspathsStep
    \/ DecodeReturn

DecodeSpec == DecodeInit /\ [][DecodeNext]_vars

\* ============================================================== claims

\* C1: connect() returns True only if the bytes its recv(14) returned are
\* exactly the 14-byte magic token (the socket then stays open until the
\* caller's exit()); whenever they are anything else (wrong bytes, too few,
\* none) and whenever socket.connect failed, it has returned False, and the
\* session has left by sys.exit without becoming connected.
C1_ConnectOnlyOnExactToken ==
    /\ connectResult = "True" =>
         /\ (socket = "open" \/ pc = "after_exit")
         /\ hsReceived
         /\ hsData = magic_token
         /\ Len(hsData) = HandshakeRecvSize
    /\ (hsReceived /\ hsData # magic_token) =>
         (connectResult = "False" /\ pc = "exited")
    /\ socket = "None" => (connectResult = "False" /\ pc = "exited")
    /\ connectResult = "none" => pc \in {"connect", "hs_send", "hs_recv"}

\* The peer echoed the token and connect() returned True.
C1_Witness ==
    /\ connectResult = "True"
    /\ hsData = magic_token
    /\ pc = "send"

\* C2: a request packet is built and written only on a connection whose
\* handshake succeeded; once connect() has returned False nothing is written.
C2_NoRequestWithoutHandshake ==
    /\ (outLog # <<>> \/ pc \in {"send", "hdr", "body", "ready"} \/ packet # <<>>) =>
         (connectResult = "True" /\ hsData = magic_token)
    /\ connectResult = "False" =>
         (outLog = <<>> /\ packet = <<>> /\ accepted = 0 /\ pc = "exited")

\* Two requests were written after a successful handshake.
C2_Witness ==
    /\ Len(outLog) >= 2
    /\ connectResult = "True"

\* C3: a send_command call with a name that is not in cmd_map ends with a
\* KeyError in that same step: nothing is written (no packet is built, no
\* send is issued), nothing is read from the socket, command_count is
\* unchanged.
C3_UnknownCommandSendsNothing ==
    [][ (calls' # calls /\ cmdName' \notin DOMAIN cmd_map) =>
          /\ outcome' = "KeyError"
          /\ pc' = "ready"
          /\ packet' = <<>>
          /\ accepted' = 0
          /\ outLog' = outLog
          /\ inbuf' = inbuf
          /\ command_count' = command_count ]_vars

\* send_command("NotACommand") was called and raised.
C3_Witness ==
    /\ cmdName = "NotACommand"
    /\ outcome = "KeyError"
    /\ calls >= 1

\* C4: when send_command has read a header declaring length L >= 11, the
\* body loop, given the N = L - 11 body bytes by the stream in whatever
\* non-empty chunks, ends, and what send_command returns starts with exactly
\* those N bytes, in order and unmodified, and is exactly them when the
\* stream held nothing beyond the body.
C4_BodyPrefixReturned ==
    (outcome = "returned" /\ length >= hlength) =>
        /\ full_length = length - hlength
        /\ Len(result) >= full_length
        /\ Len(result) <= Len(afterHdr)
        /\ result = Prefix(afterHdr, Len(result))
        /\ (Len(afterHdr) = full_length => result = afterHdr)

\* While the loop runs, data is the part of the body received so far and is
\* shorter than the body; a read can return as soon as bytes are there.
C4_LoopInvariant ==
    pc = "body" =>
        /\ full_length = length - hlength
        /\ Len(data) < full_length
        /\ Len(data) <= Len(afterHdr)
        /\ data = Prefix(afterHdr, Len(data))
        /\ (inbuf # <<>> => ENABLED RecvBody)

\* Every read of the loop that returns bytes appends all of them, so data
\* grows by at least one byte a turn, and the loop is left as soon as data is
\* no longer shorter than the body: at most N turns.
C4_LoopStep ==
    (pc = "body" /\ Len(inbuf') < Len(inbuf)) =>
        /\ Len(data') = Len(data) + (Len(inbuf) - Len(inbuf'))
        /\ data' = Prefix(afterHdr, Len(data'))
        /\ (pc' = "body") = (Len(data') < full_length)
        /\ (pc' # "body" => (outcome' = "returned" /\ result' = data'))

C4_BodyReassembled ==
    [](C4_BodyPrefixReturned /\ C4_LoopInvariant) /\ [][C4_LoopStep]_vars

\* The same, as progress: under FairSpec a loop whose body bytes have all
\* arrived is left.
C4_BodyLoopEnds ==
    (pc = "body" /\ Len(data) + Len(inbuf) >= full_length) ~> (pc # "body")

\* A two-byte body came in two one-byte chunks and was returned whole.
C4_Witness ==
    /\ outcome = "returned"
    /\ length = hlength + 2
    /\ Len(lastChunk) = 1
    /\ result = BodyOfLen(2)
    /\ afterHdr = result

\* C5: a read of the response header that returns fewer than 11 bytes is
\* accumulated until the 11 header bytes are there: it does not make
\* send_command fail.
C5_ShortHeaderReadAccumulated ==
    ~ ( /\ outcome = "struct.error"
        /\ lastChunk # <<>>
        /\ Len(lastChunk) < hlength )

\* C6: once a read of the body loop has returned b"" (the peer closed before
\* the declared body was complete), send_command has left the loop and failed
\* with a transport error.
C6_PeerCloseMidBodyFails ==
    emptyReads > 0 => (pc # "body" /\ outcome = "TransportError")

\* C7: every request packet written carries an id strictly greater than the
\* id of every request packet written before it.
C7_RequestIdsIncrease ==
    \A i, j \in 1..Len(outLog) : i < j => outLog[i] < outLog[j]

\* C8: the number of requests written minus the number of responses read in
\* full is 0 or 1, and it is 0 whenever send_command is about to write one.
C8_OneOutstandingRequest ==
    /\ Len(outLog) - nRead \in {0, 1}
    /\ pc = "send" => Len(outLog) - nRead = 0

\* The payload a call passes: empty when data is None.
PayloadOf(arg) == IF arg.none THEN <<>> ELSE arg.bytes

\* C9: every request packet send_command builds is an 11-byte header followed
\* by the payload; the header's length field reads 11 + len(payload), its id
\* field the request id, its flags 0 and its command set and command the
\* cmd_map entry of the name.
C9_RequestPacketLayout ==
    pc \in {"send", "hdr", "body"} =>
        /\ Len(packet) = hlength + Len(PayloadOf(cmdData))
        /\ UnpackHeader(Prefix(packet, hlength)) =
             [length  |-> hlength + Len(PayloadOf(cmdData)),
              id      |-> PacketId(packet),
              flags   |-> 0,
              cmd_set |-> cmd_map[cmdName][1],
              cmd     |-> cmd_map[cmdName][2]]
        /\ Suffix(packet, hlength) = PayloadOf(cmdData)
        /\ (pc = "send" => PacketId(packet) = command_count)

\* CreateString was sent with a one-byte payload.
C9_Witness ==
    /\ pc = "hdr"
    /\ cmdName = "CreateString"
    /\ cmdData = BytesArg(<<7>>)
    /\ Len(packet) = hlength + 1

\* C10: when send_command starts to read the response, every byte of the
\* request packet has been accepted by the socket.
C10_WholePacketWritten ==
    pc = "hdr" => accepted = Len(packet)

\* C11: the size registry is written exactly once in a session: by the
\* constructor, with the decoded result of the IDSizes query that is the
\* first (and until then only) request written after the successful
\* handshake; a constructed session has it written, and no later operation
\* (send_command, do_sizes which sends IDSizes again, exit) writes it again.
C11_RegistryWrittenOnce ==
    /\ [](setSizesCalls <= 1)
    /\ []((pc \in {"ready", "after_exit"} \/ calls > 0) => setSizesCalls = 1)
    /\ [](setSizesCalls = 0 =>
            /\ sizes = <<>>
            /\ ctx = "init"
            /\ Len(outLog) <= 1
            /\ cmdName \in {"", "IDSizes"})
    /\ [][ (setSizesCalls' # setSizesCalls \/ sizes' # sizes) =>
             /\ setSizesCalls = 0
             /\ setSizesCalls' = 1
             /\ connectResult = "True"
             /\ ctx = "init"
             /\ cmdName = "IDSizes"
             /\ Len(outLog) = 1
             /\ outcome' = "returned"
             /\ sizes' = DecodeSizes(result') ]_vars

\* do_sizes() got a well-formed IDSizes reply after construction.
C11_Witness ==
    /\ ctx = "get_sizes"
    /\ outcome = "returned"
    /\ result = IDSizesBody
    /\ setSizesCalls = 1
    /\ sizes = <<4, 4, 8, 8, 8>>

\* C12: exit() never raises and leaves no socket open: called on the
\* connected session it closes the socket, called again it changes nothing,
\* and called by the constructor after a handshake mismatch (socket open) or
\* after socket.connect failed (self.socket is None, no socket was opened)
\* it closes the one and leaves the other alone.
C12_ExitIdempotent ==
    /\ [](exitOutcome \in {"none", "returned"})
    /\ [](exitCalls > 0 => socket \in {"closed", "None"})
    /\ [][ exitCalls' # exitCalls =>
             /\ exitCalls' = exitCalls + 1
             /\ exitOutcome' = "returned"
             /\ socket' = IF pc = "connect" THEN "None"
                          ELSE IF socket = "open" THEN "closed" ELSE socket ]_vars

\* exit() was called a second time, on the socket it had already closed.
C12_Witness ==
    /\ pc = "after_exit"
    /\ exitCalls = 2
    /\ exitOutcome = "returned"
    /\ socket = "closed"

C14_NoAutomaticRetry ==
    /\ [](Len(outLog) <= calls + 1)
    /\ [][ outLog' # outLog =>
             (pc = "send" /\ pc' # "send" /\ Len(outLog') = Len(outLog) + 1) ]_vars
    /\ [][ (pc' = "send" /\ pc # "send") =>
             (pc \in {"ready", "hs_recv"} /\ (calls' = calls + 1 \/ pc = "hs_recv")) ]_vars
    /\ [][ (pc # "connect" \/ connectResult # "none") => pc' # "connect" ]_vars
    /\ [][ connectResult # "none" => pc' \notin {"hs_send", "hs_recv"} ]_vars

\* A call wrote its request, failed at the header read, and wrote no more.
C14_Witness ==
    /\ outcome = "struct.error"
    /\ pc = "ready"
    /\ calls = 1
    /\ Len(outLog) = 2

\* C16: what send_command returns for a header declaring length L >= 11 has
\* exactly L - 11 bytes: no byte beyond the declared end of the packet is
\* taken from the stream.
C16_OnlyBodyReturned ==
    (outcome = "returned" /\ length >= hlength) => Len(result) = length - hlength

RECURSIVE Sum(_)
Sum(ns) == IF ns = <<>> THEN 0 ELSE Head(ns) + Sum(Tail(ns))

\* The methods with a repeated-record loop after a 4-byte count.
InRecordLoop == fn \in {"get_threads", "get_threadgroups", "get_classes"}

\* The bytes record i of the reply takes, and what decoding it gives.
RecordWidth(i) ==
    IF fn = "get_classes"
    THEN Len(EncodeClass(truth.records[i], ReferenceTypeIdSize(sizes)))
    ELSE ObjectIdSize(sizes)

RecordValue(i) ==
    IF fn = "get_classes"
    THEN Normalize(SigOf(truth.records[i]))
    ELSE truth.records[i]

\* The offset is 4 before the first record and 4 plus the bytes of the
\* records decoded after each; record i was decoded from the place where
\* record i of the reply stands; never more than `count` records, and exactly
\* `count` (none when count <= 0) when the loop is left.
C18_LoopInvariant ==
    (InRecordLoop /\ dpc \in {"loop", "done"}) =>
        /\ Len(consumed) = Len(items)
        /\ offset = FirstOffset + Sum(consumed)
        /\ (items = <<>> => offset = LengthFieldSize)
        /\ Len(items) <= (IF count > 0 THEN count ELSE 0)
        /\ Len(items) <= Len(truth.records)
        /\ \A i \in 1..Len(items) :
             /\ consumed[i] = RecordWidth(i)
             /\ items[i] = RecordValue(i)
        /\ (dpc = "done" => Len(items) = (IF count > 0 THEN count ELSE 0))

\* A step of the loop either leaves it (return, or the parser's error) or
\* decodes one record and moves the offset by what the record took: the
\* records still to decode get fewer with every turn, and no step of the
\* loop waits for anything.
C18_LoopStep ==
    (InRecordLoop /\ dpc = "loop") =>
        \/ dpc' \in {"done", "error"} /\ items' = items /\ offset' = offset
        \/ /\ dpc' = "loop"
           /\ Len(items') = Len(items) + 1
           /\ count - Len(items') < count - Len(items)
           /\ offset' = offset + consumed'[Len(consumed')]
           /\ offset' > offset

\* C18: in get_threads, get_threadgroups and get_classes the running offset
\* starts at 4, is 4 plus the bytes consumed by the records decoded so far,
\* each record is decoded where the previous one ended, and the loop ends
\* after at most `count` turns: with exactly `count` records when the reply
\* holds them (none for count <= 0), with the parser's error when it
\* declares more than it holds.
C18_OffsetBookkeeping ==
    /\ [](C18_LoopInvariant)
    /\ []((InRecordLoop /\ WellFormed) => dpc # "error")
    /\ [][C18_LoopStep]_vars

\* get_classes decoded two records of different length and returned.
C18_Witness ==
    /\ fn = "get_classes"
    /\ dpc = "done"
    /\ count = 2
    /\ Len(items) = 2
    /\ consumed[1] # consumed[2]
    /\ offset = Len(response)

\* C19: for a signature made of array marks, "L", an internal class name
\* and ";", get_classes keeps the class name up to its first "$" with every
\* "/" turned into ".", whatever the name starts with.
C19_OnlyMarkersStripped ==
    (fn = "get_classes" /\ dpc \in {"loop", "done"}) =>
        \A i \in 1..Len(items) :
            items[i] = SlashesToDots(BeforeDollar(truth.records[i].name))

\* C17: while the peer has sent exactly one reply packet per request, in
\* order, the k-th call that returns gives the body of the reply to the k-th
\* request.
C17_RepliesMatchRequests ==
    (peerHonest /\ outcome = "returned") => matched

\* C15: classpaths() returns the classpath entries of the reply as its first
\* list and the bootclasspath entries of the reply as its second.
C15_BothPathListsReturned ==
    (fn = "classpaths" /\ dpc = "done") => ret = << truth.cps, truth.bcps >>

\* The bytes the peer sent in answer to the token, once connect() has
\* returned False: what recv(14) took and what it left in the stream.
HandshakeEcho == hsData \o inbuf

\* C20: when the peer echoed the identical 14-byte token, connect() returned
\* True: no session ends on a failed handshake with the token echoed.
C20_EchoAlwaysConnects ==
    (connectResult = "False" /\ hsReceived) => HandshakeEcho # magic_token

====
